---- MODULE Spec2Model ----
(***************************************************************************)
(* The Matrix "digital rain" engine of src/src/matrix.c as a state         *)
(* machine: Matrix_init, Matrix_update, Matrix_render and Matrix_deinit    *)
(* acting on the Matrix struct of src/src/matrix.h, driven by a host that  *)
(* supplies the clock, the canvas size, the font metrics and the answers   *)
(* of the allocator and of GDI.                                            *)
(*                                                                         *)
(* Representation.  C arrays are functions over 0..n-1, so every index is  *)
(* the index of the source.  A float alpha is the integer number of 2^-28  *)
(* it holds: 1.0f is 2^28, FADE_RATE = 0.04f is 10737418, and every alpha  *)
(* the program computes is a multiple of 2^-28; F32Sub rounds a difference *)
(* to 24 significant bits, ties to even, as the float subtraction does.    *)
(* rng_float is the integer number of ten-thousandths it returns.          *)
(***************************************************************************)
EXTENDS Integers, Sequences, FiniteSets, TLC

VARIABLES
    matrix,     \* the host's Matrix* (main.c): "NULL", "live" or "dangling"
    m,          \* the contents of the Matrix struct
    heap,       \* every resource Matrix_init acquires, and what became of it
    now,        \* the millisecond clock GetTickCount64 reads
    fault,      \* "none", or the undefined behaviour the program ran into
    last,       \* the last call of the host and how it ended
    trace,      \* per column, the branches the last Matrix_update took
    ticks,      \* number of Matrix_update calls that passed the time gate
    frame       \* the drawing calls of Matrix_render, when it was the last call

vars == <<matrix, m, heap, now, fault, last, trace, ticks, frame>>

----------------------------------------------------------------------------
(* Program constants. *)

FONT_HEIGHT == 20
MATRIX_SPEED_MS == 70
\* FADE_RATE 0.04f = 0x3D23D70A = 10737418 * 2^-28
FADE_RATE == 10737418
MIN_TRAIL_LENGTH == 30
MAX_TRAIL_LENGTH == 40
\* ACTIVE_COLUMN_PROBABILITY 0.95f, in ten-thousandths
ACTIVE_COLUMN_PROBABILITY == 9500
\* 1.0f in units of 2^-28
ONE == 268435456
\* the cap on the column count
MAX_COLUMNS == 500
\* drops[i] <= INACTIVE marks a column that is off
INACTIVE == -10000
\* WCHAR characters[64] of FrozenTrail
FROZEN_CHARS == 64
\* padding added to tmAveCharWidth
CHAR_PADDING == 8
\* first capacity of a column's frozen_trails array
FIRST_CAPACITY == 4
\* rng_float: rng_next % 10000
FLOAT_STEPS == 10000
\* the thresholds of Matrix_update, in ten-thousandths
REACTIVATE_P == 100
FADE_START_P == 100
FREEZE_ABOVE == 9000
MUTATE_P == 1000
\* the LCG of rng_next
LCG_MULTIPLIER == 1664525
LCG_INCREMENT == 1013904223
LCG_MASK == 2147483647
\* content of storage that was never written (realloc'd frozen trails)
INDETERMINATE == -1

\* letters[] of charset.h without its terminating 0x0000
letters == <<
    48, 49, 1040, 1041, 1042, 1043, 1044, 1045, 1046, 1047,
    1048, 1049, 1050, 1051, 1052, 1053, 1054, 1055, 1056, 1057,
    1058, 1059, 1060, 1061, 1062, 1063, 1064, 1065, 1066, 1067,
    1068, 1069, 1070, 1071, 12450, 12452, 12454, 12456, 12458, 12459,
    12461, 12463, 12465, 12467, 12469, 12471, 12473, 12475, 12477, 12479,
    12481, 12483, 12486, 12488, 12490, 12491, 12492, 12493, 12494, 12495,
    12498, 12501, 12504, 12507, 12510, 12511, 12512, 12513, 12514, 12516,
    12518, 12520, 12521, 12522, 12523, 12524, 12525, 12527, 12530, 12531 >>

----------------------------------------------------------------------------
(* Bounds of the model. *)

\* effective ticks explored after Matrix_init
MaxTicks == 30
\* largest column index a failing column-buffer allocation is tried at
MaxFailColumn == 1

\* seeds GetTickCount() ^ 0xDEADBEEF may give (kept below 2^31: rng_next
\* masks the state to 31 bits before any use)
Seeds == {105, 827, 1429}
\* canvas sizes the host passes in the main specification
Widths == {40}
Heights == {10, 40}
\* tmAveCharWidth of the font
AveCharWidths == {12}
\* time between two calls of Matrix_update by the host loop
Delays == {35, 70}
\* GetTickCount64() when the program starts
StartClocks == {1000}
\* canvas widths and font metrics of the specification of Matrix_init alone
CreateWidths ==
    {-40, -20, -19, -1, 0, 1, 19, 20, 39, 40, 100, 1000, 9999, 10000, 10020}
CreateAveCharWidths == {-9, -8, 2, 12, 92}
CreateHeights == {400}
CreateSeeds == {105}

----------------------------------------------------------------------------
(* Sequencing.  C executes the statements of a loop in order; the loops    *)
(* below are ranges split in two, and a range is entered only once the     *)
(* state the range before it leaves has been computed.                     *)

\* TRUE, after x has been computed
Done(x) == DOMAIN x = DOMAIN x

----------------------------------------------------------------------------
(* Integer arithmetic of C. *)

Abs(x) == IF x < 0 THEN -x ELSE x

\* int / int truncates toward zero
CDiv(a, b) ==
    LET q == Abs(a) \div Abs(b)
    IN  IF (a < 0) = (b < 0) THEN q ELSE -q

\* (a + b) mod 2^31 for 0 <= a, b < 2^31, without leaving 32 bits
AddMod31(a, b) ==
    LET d == LCG_MASK - b
    IN  IF a > d THEN a - d - 1 ELSE a + b

\* (x * 2^k) mod 2^31 given x >= 0: keep the low 31-k bits, then shift
ShiftMod31(x, k) == (x % (2 ^ (31 - k))) * (2 ^ k)

\* (s * 1664525) mod 2^31 by 16 x 11 bit partial products
MulMod31(s) ==
    LET sl == s % 65536
        sh == s \div 65536
        a0 == LCG_MULTIPLIER % 2048
        a1 == LCG_MULTIPLIER \div 2048
    IN  AddMod31(AddMod31(sl * a0, ShiftMod31(sl * a1, 11)),
                 AddMod31(ShiftMod31(sh * a0, 16), ShiftMod31(sh * a1, 27)))

\* *state = (*state * 1664525 + 1013904223) & 0x7FFFFFFF
rng_next(state) == AddMod31(MulMod31(state), LCG_INCREMENT)

\* at_least + (r % range), r the number rng_next returned
InRange(r, at_least, range) == [state |-> r, value |-> at_least + (r % range)]

\* a number in [at_least, less_than), or at_least without a draw when the
\* range is empty; the result is the new state and the number
rng_int_range(state, at_least, less_than) ==
    IF less_than - at_least <= 0
    THEN [state |-> state, value |-> at_least]
    ELSE InRange(rng_next(state), at_least, less_than - at_least)

\* (float)(rng_next % 10000) / 10000.0f, as its numerator
rng_float(state) == InRange(rng_next(state), 0, FLOAT_STEPS)

\* letters[idx], idx the draw d
Letter(d) == [state |-> d.state, value |-> letters[d.value + 1]]

\* a character of letters[], or '0' were the array empty
random_char(state) ==
    IF Len(letters) <= 0
    THEN [state |-> state, value |-> 48]
    ELSE Letter(rng_int_range(state, 0, Len(letters)))

----------------------------------------------------------------------------
(* Float arithmetic: alphas in units of 2^-28. *)

\* the spacing of floats around a magnitude n (n in units of 2^-28)
Ulp(n) ==
    IF n < 16777216 THEN 1
    ELSE IF n < 33554432 THEN 2
    ELSE IF n < 67108864 THEN 4
    ELSE IF n < 134217728 THEN 8
    ELSE IF n < 268435456 THEN 16
    ELSE 32

\* round to nearest float, ties to even
F32Round(x) ==
    LET n == Abs(x)
        u == Ulp(n)
        q == n \div u
        r == n % u
        up == (2 * r > u) \/ (2 * r = u /\ q % 2 = 1)
        v == (IF up THEN q + 1 ELSE q) * u
    IN  IF x < 0 THEN -v ELSE v

\* a - b in float
F32Sub(a, b) == F32Round(a - b)

----------------------------------------------------------------------------
(* Resources.  Every malloc/calloc/realloc block, the device context and   *)
(* the font has a status: "none" (never acquired, the pointer is NULL),    *)
(* "live", "released", or "released_twice".                                *)

\* the eight per-column arrays of the Matrix struct, in allocation order
TopArrays ==
    {"drops", "frozen", "trail_chars", "trail_lengths", "trail_alphas",
     "frozen_trails", "frozen_trail_counts", "frozen_trail_capacities"}

Release(status) ==
    IF status = "live" THEN "released"
    ELSE IF status = "released" THEN "released_twice"
    ELSE status

\* no resource acquired
NoHeap ==
    [matrix |-> "none", dc |-> "none", font |-> "none",
     arrays |-> [a \in TopArrays |-> "none"],
     trail_chars |-> <<>>, frozen_trails |-> <<>>]

\* a struct nothing was stored in
NoMatrix ==
    [width |-> 0, height |-> 0, char_width |-> 0, columns |-> 0,
     drops |-> <<>>, frozen |-> <<>>, trail_chars |-> <<>>,
     trail_lengths |-> <<>>, trail_alphas |-> <<>>, frozen_trails |-> <<>>,
     frozen_trail_counts |-> <<>>, frozen_trail_capacities |-> <<>>,
     rng_state |-> 0, last_update |-> 0]

\* what the host can make fail inside Matrix_init: nothing, one of the calls
\* before the arrays, one of the eight calloc's, or column col's buffer
FailSites ==
    {"none", "malloc", "GetDC", "CreateFontW", "GetTextMetricsW", "column"}
        \cup TopArrays

----------------------------------------------------------------------------
(* Matrix_deinit *)

\* the frees of Matrix_deinit on a struct with n columns: every non-NULL
\* pointer is freed, the font deleted, the struct freed
FreeAll(h) ==
    [h EXCEPT !.trail_chars = [i \in DOMAIN h.trail_chars |-> Release(h.trail_chars[i])],
              !.frozen_trails = [i \in DOMAIN h.frozen_trails |-> Release(h.frozen_trails[i])],
              !.arrays = [a \in TopArrays |-> Release(h.arrays[a])],
              !.font = Release(h.font),
              !.matrix = Release(h.matrix)]

\* Matrix_deinit(matrix) for a non-NULL matrix whose struct is readable.
\* The loop over the columns reads trail_chars[i] and frozen_trails[i]
\* before the arrays themselves are tested for NULL: with columns > 0 and
\* one of the two NULL, the first iteration reads through a null pointer.
Matrix_deinit(h, columns) ==
    IF columns > 0 /\ h.arrays["trail_chars"] = "none"
    THEN [heap |-> h, fault |-> "null_deref"]
    ELSE IF columns > 0 /\ h.arrays["frozen_trails"] = "none"
    THEN [heap |-> [h EXCEPT !.trail_chars[0] = Release(@)], fault |-> "null_deref"]
    ELSE [heap |-> FreeAll(h), fault |-> "none"]

----------------------------------------------------------------------------
(* Matrix_init *)

\* size_t columns = char_width > 0 ? (size_t)(width / char_width) : 0;
\* if (columns > 500) columns = 500;  A negative quotient converts to a
\* size_t above 2^63, which the cap then brings to 500.
ColumnCount(width, char_width) ==
    LET q == IF char_width > 0 THEN CDiv(width, char_width) ELSE 0
    IN  IF q < 0 \/ q > MAX_COLUMNS THEN MAX_COLUMNS ELSE q

\* calloc(MAX_TRAIL_LENGTH, sizeof(WCHAR))
ZeroChars == [j \in 0 .. MAX_TRAIL_LENGTH - 1 |-> 0]

\* chars[j] = c
CharStored(s, j, c) == [state |-> c.state, chars |-> [s.chars EXCEPT ![j] = c.value]]

\* for (j = lo; j < hi; j++) chars[j] = random_char(&state), on
\* s = [state, chars], once the statements before it are done
RECURSIVE FillChars(_, _, _)
FillChars(s, lo, hi) ==
    IF ~Done(s) \/ hi <= lo THEN s
    ELSE IF hi = lo + 1 THEN CharStored(s, lo, random_char(s.state))
    ELSE FillChars(FillChars(s, lo, (lo + hi) \div 2), (lo + hi) \div 2, hi)

\* a faulty negation: one row too high
NegatedBelow(d) == [state |-> d.state, value |-> -d.value - 1]

\* the draw d negated: a start position is -rng_int_range(state, 0, rows)
Negated(d) == [state |-> d.state, value |-> -d.value]

StartPosition(state, rows) == Negated(rng_int_range(state, 0, rows))

\* a faulty length: the upper end one too far
TrailLengthWide(state) == rng_int_range(state, MIN_TRAIL_LENGTH, MAX_TRAIL_LENGTH + 2)

\* a trail length: rng_int_range(state, MIN_TRAIL_LENGTH, MAX_TRAIL_LENGTH + 1)
TrailLength(state) == rng_int_range(state, MIN_TRAIL_LENGTH, MAX_TRAIL_LENGTH + 1)

\* drops[i] for the 95% draw act: a position above the screen, or INACTIVE
InitialDrop(mm, i, act) ==
    IF act.value < ACTIVE_COLUMN_PROBABILITY
    THEN StartPosition(act.state, CDiv(mm.height, FONT_HEIGHT) * 2)
    ELSE [state |-> act.state, value |-> INACTIVE]

\* the column's fields stored: length len, characters filled, position pos
ColumnStored(mm, i, len, filled, pos) ==
    [mm EXCEPT !.trail_chars[i] = filled.chars,
               !.trail_lengths[i] = len,
               !.trail_alphas[i] = ONE,
               !.frozen_trails[i] = <<>>,
               !.frozen_trail_counts[i] = 0,
               !.frozen_trail_capacities[i] = 0,
               !.drops[i] = pos.value,
               !.rng_state = pos.state]

\* the characters filled, then the 95% draw and the position
ColumnFilled(mm, i, len, filled) ==
    ColumnStored(mm, i, len, filled, InitialDrop(mm, i, rng_float(filled.state)))

\* the length len drawn, then the characters filled
ColumnSized(mm, i, len) ==
    ColumnFilled(mm, i, len.value,
                 FillChars([state |-> len.state, chars |-> ZeroChars], 0, len.value))

\* one iteration of the column loop of Matrix_init, the buffer allocated
InitColumn(mm, i) == ColumnSized(mm, i, TrailLength(mm.rng_state))

\* the column loop for columns lo .. hi-1, every buffer allocated, once
\* the columns before lo are done
RECURSIVE InitColumns(_, _, _)
InitColumns(mm, lo, hi) ==
    IF ~Done(mm) \/ hi <= lo THEN mm
    ELSE IF hi = lo + 1 THEN InitColumn(mm, lo)
    ELSE InitColumns(InitColumns(mm, lo, (lo + hi) \div 2), (lo + hi) \div 2, hi)

\* the struct after the eight calloc's: every array zero-filled
ZeroedMatrix(width, height, char_width, columns, seed, clock) ==
    LET C == 0 .. columns - 1
    IN  [width |-> width, height |-> height, char_width |-> char_width,
         columns |-> columns,
         drops |-> [i \in C |-> 0], frozen |-> [i \in C |-> FALSE],
         trail_chars |-> [i \in C |-> <<>>],
         trail_lengths |-> [i \in C |-> 0], trail_alphas |-> [i \in C |-> 0],
         frozen_trails |-> [i \in C |-> <<>>],
         frozen_trail_counts |-> [i \in C |-> 0],
         frozen_trail_capacities |-> [i \in C |-> 0],
         rng_state |-> seed, last_update |-> clock]

\* Matrix_init(hwnd, width, height) with font metric ave, seed and clock as
\* GetTickCount gives them, and the call named by fail (column fail_col for
\* "column") failing.  result: "engine", "NULL", or "crash" when the
\* cleanup ran into undefined behaviour.
Matrix_init(width, height, ave, seed, clock, fail, fail_col) ==
    LET char_width == ave + CHAR_PADDING
        columns == ColumnCount(width, char_width)
        C == 0 .. columns - 1
        h1 == [NoHeap EXCEPT !.matrix = "live"]
        h2 == [h1 EXCEPT !.dc = "live"]
        h3 == [h2 EXCEPT !.font = "live"]
        h5 == [h3 EXCEPT !.dc = "released"]
        h8 == [h5 EXCEPT !.arrays = [a \in TopArrays |-> IF a = fail THEN "none" ELSE "live"],
                         !.trail_chars = [i \in C |-> "none"],
                         !.frozen_trails = [i \in C |-> "none"]]
        z == ZeroedMatrix(width, height, char_width, columns, seed, clock)
        cleanup8 == Matrix_deinit(h8, columns)
        \* the column whose calloc returns NULL, or columns when none does
        stop == IF fail = "column" /\ fail_col < columns THEN fail_col ELSE columns
        h9 == [h8 EXCEPT !.trail_chars = [i \in C |-> IF i < stop THEN "live" ELSE "none"]]
        cleanup9 == Matrix_deinit(h9, columns)
        Failed(h) == [result |-> "NULL", m |-> NoMatrix, heap |-> h, fault |-> "none"]
        Cleaned(c) == [result |-> IF c.fault = "none" THEN "NULL" ELSE "crash",
                       m |-> NoMatrix, heap |-> c.heap, fault |-> c.fault]
    IN  IF fail = "malloc" THEN Failed(NoHeap)
        ELSE IF fail = "GetDC" THEN Failed([h1 EXCEPT !.matrix = "released"])
        ELSE IF fail = "CreateFontW"
        THEN Failed([h2 EXCEPT !.matrix = "released", !.dc = "released"])
        ELSE IF fail = "GetTextMetricsW"
        THEN Failed([h3 EXCEPT !.font = "released", !.matrix = "released",
                               !.dc = "released"])
        ELSE IF columns = 0
        THEN Failed([h5 EXCEPT !.font = "released", !.matrix = "released"])
        ELSE IF fail \in TopArrays THEN Cleaned(cleanup8)
        ELSE IF stop < columns THEN Cleaned(cleanup9)
        ELSE [result |-> "engine", m |-> InitColumns(z, 0, columns), heap |-> h9,
              fault |-> "none"]

----------------------------------------------------------------------------
(* Matrix_update: the per-column state machine.  Each step takes and       *)
(* returns w = [m, t]: the struct, and the record t of the branches taken  *)
(* for the column in this call.                                            *)

\* nothing done yet for a column
NoTrace ==
    [branch |-> "none", fade_started |-> FALSE, restart_pos |-> <<>>,
     shifted |-> FALSE, freeze_fired |-> FALSE, realloc_failed |-> FALSE,
     captured |-> FALSE, mutated |-> <<>>, removed |-> 0]

\* a faulty rate limit: the interval halved
GatedAtHalf(clock, last_update) == clock - last_update < MATRIX_SPEED_MS \div 2

\* now - last_update < MATRIX_SPEED_MS: the call returns at once
Gated(clock, last_update) == clock - last_update < MATRIX_SPEED_MS

\* trail_lengths[i] = len; trail_alphas[i] = 1.0f, drops[i] = position set
RestartWith(mm, i, position, len) ==
    [mm EXCEPT !.drops[i] = position,
               !.trail_lengths[i] = len.value,
               !.trail_alphas[i] = ONE,
               !.rng_state = len.state]

\* drops[i] = -rng_int_range(0, rows); trail_lengths[i] = rng_int_range(30, 41);
\* trail_alphas[i] = 1.0f
RestartAt(mm, i, pos) == RestartWith(mm, i, pos.value, TrailLength(pos.state))

\* a faulty restart: the column is switched off
RestartOff(mm, i, rows) == RestartWith(mm, i, INACTIVE, TrailLength(mm.rng_state))

Restart(mm, i, rows) == RestartAt(mm, i, StartPosition(mm.rng_state, rows))

\* a faulty inactive branch: a column left inactive moves one row down
ReactivatedOrMoved(w, i, rows, f) ==
    IF f.value < REACTIVATE_P
    THEN [m |-> Restart([w.m EXCEPT !.rng_state = f.state], i, rows),
          t |-> [w.t EXCEPT !.branch = "reactivated"]]
    ELSE [m |-> [w.m EXCEPT !.rng_state = f.state, !.drops[i] = @ + 1],
          t |-> [w.t EXCEPT !.branch = "inactive"]]

\* an inactive column after its 1% draw f
Reactivated(w, i, rows, f) ==
    IF f.value < REACTIVATE_P
    THEN [m |-> Restart([w.m EXCEPT !.rng_state = f.state], i, rows),
          t |-> [w.t EXCEPT !.branch = "reactivated"]]
    ELSE [m |-> [w.m EXCEPT !.rng_state = f.state],
          t |-> [w.t EXCEPT !.branch = "inactive"]]

\* an inactive column: 1% chance to reactivate, then continue
Reactivate(w, i, rows) == Reactivated(w, i, rows, rng_float(w.m.rng_state))

\* a faulty frozen branch: the column unfreezes whatever it still holds
UnfreezeAtOnce(w, i, rows) ==
    [m |-> Restart([w.m EXCEPT !.frozen[i] = FALSE], i, rows),
     t |-> [w.t EXCEPT !.branch = "unfrozen"]]

\* a faulty unfreeze: the column restarts once its stored trail is half faded
UnfreezeHalfFaded(w, i, rows) ==
    IF w.m.frozen_trail_counts[i] = 0 \/ 2 * w.m.frozen_trails[i][0].alpha < ONE
    THEN [m |-> Restart([w.m EXCEPT !.frozen[i] = FALSE], i, rows),
          t |-> [w.t EXCEPT !.branch = "unfrozen"]]
    ELSE [m |-> w.m, t |-> [w.t EXCEPT !.branch = "frozen"]]

\* a frozen column: unfreeze once no frozen trail remains
Unfreeze(w, i, rows) ==
    IF w.m.frozen_trail_counts[i] = 0
    THEN [m |-> Restart([w.m EXCEPT !.frozen[i] = FALSE], i, rows),
          t |-> [w.t EXCEPT !.branch = "unfrozen"]]
    ELSE [m |-> w.m, t |-> [w.t EXCEPT !.branch = "frozen"]]

\* a faulty fade start: the alpha lowered twice at once
FadeStartedTwice(w, i, f) ==
    IF f.value < FADE_START_P
    THEN [m |-> [w.m EXCEPT !.rng_state = f.state,
                            !.trail_alphas[i] =
                                F32Sub(F32Sub(@, FADE_RATE), FADE_RATE)],
          t |-> [w.t EXCEPT !.fade_started = TRUE]]
    ELSE [m |-> [w.m EXCEPT !.rng_state = f.state], t |-> w.t]

\* a visible, fully opaque trail after its 1% draw f
FadeStarted(w, i, f) ==
    IF f.value < FADE_START_P
    THEN [m |-> [w.m EXCEPT !.rng_state = f.state,
                            !.trail_alphas[i] = F32Sub(@, FADE_RATE)],
          t |-> [w.t EXCEPT !.fade_started = TRUE]]
    ELSE [m |-> [w.m EXCEPT !.rng_state = f.state], t |-> w.t]

\* 1% chance to start fading a visible, fully opaque trail
FadeStart(w, i) ==
    IF w.m.drops[i] > 0 /\ w.m.trail_alphas[i] >= ONE
    THEN FadeStarted(w, i, rng_float(w.m.rng_state))
    ELSE w

\* the trail reset above the screen: reset is the struct Restart gives
FadedOut(w, i, reset) ==
    [m |-> reset, t |-> [w.t EXCEPT !.restart_pos = <<reset.drops[i]>>]]

\* a faulty fade: the fully faded trail is left as it is
NotReset(w, i, rows) == w

\* the trail after trail_alphas[i] -= FADE_RATE: reset if alpha <= 0
Faded(w, i, rows) ==
    IF w.m.trail_alphas[i] <= 0 THEN FadedOut(w, i, Restart(w.m, i, rows)) ELSE w

\* a fading trail fades on; fully faded, it is reset above the screen
FadeContinue(w, i, rows) ==
    IF w.m.trail_alphas[i] < ONE
    THEN Faded([w EXCEPT !.m.trail_alphas[i] = F32Sub(@, FADE_RATE)], i, rows)
    ELSE w

\* a faulty shift: the characters stay where they are
ShiftNone(chars, len) == chars

\* for (j = len - 1; j > 0; j--) chars[j] = chars[j - 1]
ShiftChars(chars, len) ==
    [j \in DOMAIN chars |-> IF 1 <= j /\ j <= len - 1 THEN chars[j - 1] ELSE chars[j]]

\* the characters shifted, c at index 0, the trail one row down
Advanced(w, i, c) ==
    [m |-> [w.m EXCEPT !.trail_chars[i] =
                          [ShiftChars(@, w.m.trail_lengths[i]) EXCEPT ![0] = c.value],
                       !.drops[i] = @ + 1,
                       !.rng_state = c.state],
     t |-> [w.t EXCEPT !.shifted = TRUE]]

\* a faulty advance: a trail more than three rows below the canvas is put
\* back at the top
AdvanceWrapped(w, i) ==
    IF w.m.trail_alphas[i] <= 0 THEN w
    ELSE IF w.m.drops[i] * FONT_HEIGHT > w.m.height + 3 * FONT_HEIGHT
    THEN [w EXCEPT !.m.drops[i] = 0]
    ELSE Advanced(w, i, random_char(w.m.rng_state))

\* a visible trail shifts its characters down, gets a new leading
\* character and moves one row down
Advance(w, i) ==
    IF w.m.trail_alphas[i] > 0
    THEN Advanced(w, i, random_char(w.m.rng_state))
    ELSE w

\* an entry of realloc'd storage nothing was written to
IndeterminateTrail ==
    [characters |-> [k \in 0 .. FROZEN_CHARS - 1 |-> INDETERMINATE],
     y_pos |-> INDETERMINATE, alpha |-> INDETERMINATE]

\* realloc(frozen_trails[i], new_capacity * sizeof(FrozenTrail))
Realloc(trails, new_capacity) ==
    [k \in 0 .. new_capacity - 1 |->
        IF k \in DOMAIN trails THEN trails[k] ELSE IndeterminateTrail]

\* frozen_trails[i] = new_trails; frozen_trail_capacities[i] = new_capacity
Grown(mm, i, new_capacity) ==
    [mm EXCEPT !.frozen_trails[i] = Realloc(@, new_capacity),
               !.frozen_trail_capacities[i] = new_capacity]

\* a faulty copy: one character short
MemcpyShort(dest, src, len) ==
    [k \in DOMAIN dest |-> IF k < len - 1 THEN src[k] ELSE dest[k]]

\* memcpy(trail->characters, trail_chars[i], len * sizeof(WCHAR))
Memcpy(dest, src, len) ==
    [k \in DOMAIN dest |-> IF k < len THEN src[k] ELSE dest[k]]

\* a faulty capture: the active trail is left where it was
CapturedInPlace(mm, i, n, pos) ==
    [mm EXCEPT !.frozen_trails[i][n] =
                  [characters |-> Memcpy(@.characters, mm.trail_chars[i],
                                         mm.trail_lengths[i]),
                   y_pos |-> mm.drops[i] * FONT_HEIGHT,
                   alpha |-> ONE],
               !.frozen_trail_counts[i] = n + 1,
               !.trail_alphas[i] = ONE,
               !.rng_state = pos.state]

\* the frozen trail stored at frozen_trails[i][n], n the count before;
\* the active trail reset to position pos (its length is left as it is)
Captured(mm, i, n, pos) ==
    [mm EXCEPT !.frozen_trails[i][n] =
                  [characters |-> Memcpy(@.characters, mm.trail_chars[i],
                                         mm.trail_lengths[i]),
                   y_pos |-> mm.drops[i] * FONT_HEIGHT,
                   alpha |-> ONE],
               !.frozen_trail_counts[i] = n + 1,
               !.drops[i] = pos.value,
               !.trail_alphas[i] = ONE,
               !.rng_state = pos.state]

\* a faulty capture: the freeze gives the live trail another length
CaptureResized(mm, i, rows) ==
    [Captured(mm, i, mm.frozen_trail_counts[i], StartPosition(mm.rng_state, rows))
        EXCEPT !.trail_lengths[i] =
                  IF @ = MAX_TRAIL_LENGTH THEN MIN_TRAIL_LENGTH ELSE @ + 1]

Capture(mm, i, rows) ==
    Captured(mm, i, mm.frozen_trail_counts[i], StartPosition(mm.rng_state, rows))

\* the freeze fired and frozen[i] is set: grow the array if it is full,
\* then store the trail.  When realloc fails the rest of the column's
\* iteration is skipped (continue), frozen[i] staying set.
Frozen(w, i, rows, realloc_ok) ==
    LET cap == w.m.frozen_trail_capacities[i]
        full == w.m.frozen_trail_counts[i] >= cap
        new_capacity == IF cap = 0 THEN FIRST_CAPACITY ELSE cap * 2
    IN  IF full /\ ~realloc_ok
        THEN [m |-> w.m, skip |-> TRUE, t |-> [w.t EXCEPT !.realloc_failed = TRUE]]
        ELSE [m |-> Capture(IF full THEN Grown(w.m, i, new_capacity) ELSE w.m, i, rows),
              skip |-> FALSE, t |-> [w.t EXCEPT !.captured = TRUE]]

\* a faulty freeze: the trail is stored but the column is not marked frozen
FreezeDrawnUnmarked(w, i, rows, realloc_ok, f) ==
    IF f.value > FREEZE_ABOVE
    THEN Frozen([m |-> [w.m EXCEPT !.rng_state = f.state],
                 t |-> [w.t EXCEPT !.freeze_fired = TRUE]], i, rows, realloc_ok)
    ELSE [m |-> [w.m EXCEPT !.rng_state = f.state], skip |-> FALSE, t |-> w.t]

\* a fully opaque trail past the bottom after its 10% draw f
FreezeDrawn(w, i, rows, realloc_ok, f) ==
    IF f.value > FREEZE_ABOVE
    THEN Frozen([m |-> [w.m EXCEPT !.rng_state = f.state, !.frozen[i] = TRUE],
                 t |-> [w.t EXCEPT !.freeze_fired = TRUE]], i, rows, realloc_ok)
    ELSE [m |-> [w.m EXCEPT !.rng_state = f.state], skip |-> FALSE, t |-> w.t]

\* 10% chance to freeze a fully opaque trail that is past the bottom
Freeze(w, i, rows, realloc_ok) ==
    IF w.m.drops[i] > rows /\ w.m.trail_alphas[i] >= ONE
    THEN FreezeDrawn(w, i, rows, realloc_ok, rng_float(w.m.rng_state))
    ELSE [m |-> w.m, skip |-> FALSE, t |-> w.t]

\* trail_chars[i][idx] = c
Replaced(w, i, idx, c) ==
    [m |-> [w.m EXCEPT !.trail_chars[i][idx] = c.value, !.rng_state = c.state],
     t |-> [w.t EXCEPT !.mutated = <<idx>>]]

\* the index idx drawn from [1, len), then the character
MutatedAt(w, i, idx) == Replaced(w, i, idx.value, random_char(idx.state))

\* a faulty character change: the index drawn for the 64-character buffer
MutateDrawnWide(w, i, f) ==
    IF f.value < MUTATE_P
    THEN MutatedAt(w, i, rng_int_range(f.state, 1, FROZEN_CHARS))
    ELSE [m |-> [w.m EXCEPT !.rng_state = f.state], t |-> w.t]

\* the column after the 10% draw f of the character change
MutateDrawn(w, i, f) ==
    IF f.value < MUTATE_P
    THEN MutatedAt(w, i, rng_int_range(f.state, 1, w.m.trail_lengths[i]))
    ELSE [m |-> [w.m EXCEPT !.rng_state = f.state], t |-> w.t]

\* 10% chance to replace one character of index >= 1
Mutate(w, i) == MutateDrawn(w, i, rng_float(w.m.rng_state))

\* a faulty fade-out: the entry fades twice in a pass
DrainTwice(alpha) == F32Sub(F32Sub(alpha, FADE_RATE), FADE_RATE)

\* frozen_trails[i][j].alpha -= FADE_RATE
DrainAlpha(alpha) == F32Sub(alpha, FADE_RATE)

\* a faulty fade-out: the faded entry is kept
RemovalNever(d, j) == [d EXCEPT !.j = j + 1]

\* the entry at j after its alpha was reduced: removed (overwritten by
\* the last entry, the count reduced) if alpha <= 0, else kept
Removal(d, j) ==
    IF d.trails[j].alpha <= 0
    THEN [trails |-> [d.trails EXCEPT ![j] = d.trails[d.count - 1]],
          count |-> d.count - 1, j |-> j, removed |-> d.removed + 1]
    ELSE [d EXCEPT !.j = j + 1]

\* the fade-out loop over frozen_trails[i], d = [trails, count, j, removed]
RECURSIVE DrainFrom(_)
DrainFrom(d) ==
    IF d.j >= d.count THEN d
    ELSE DrainFrom(Removal([d EXCEPT !.trails[d.j].alpha = DrainAlpha(@)], d.j))

\* the loop's result stored
Drained(w, i, d) ==
    [m |-> [w.m EXCEPT !.frozen_trails[i] = d.trails,
                       !.frozen_trail_counts[i] = d.count],
     t |-> [w.t EXCEPT !.removed = d.removed]]

\* fade out the frozen trails of column i and remove the faded ones
Drain(w, i) ==
    Drained(w, i, DrainFrom([trails |-> w.m.frozen_trails[i],
                             count |-> w.m.frozen_trail_counts[i],
                             j |-> 0, removed |-> 0]))

\* a faulty end of the iteration: a trail stored in this tick is not faded
FinishUnfaded(f, i) ==
    IF f.skip \/ f.t.captured
    THEN [m |-> f.m, t |-> f.t]
    ELSE Drain(Mutate([m |-> f.m, t |-> f.t], i), i)

\* the end of the iteration for a column that is not inactive: nothing
\* after a failed realloc, else the character change and the fade-out
Finish(f, i) ==
    IF f.skip
    THEN [m |-> f.m, t |-> f.t]
    ELSE Drain(Mutate([m |-> f.m, t |-> f.t], i), i)

\* the body of the column loop for column i
UpdateColumn(mm, i, rows, realloc_ok) ==
    IF mm.drops[i] <= INACTIVE
    THEN Reactivate([m |-> mm, t |-> NoTrace], i, rows)
    ELSE IF mm.frozen[i]
    THEN Drain(Mutate(Unfreeze([m |-> mm, t |-> NoTrace], i, rows), i), i)
    ELSE Finish(Freeze(Advance(FadeContinue(FadeStart(
                    [m |-> mm, t |-> [NoTrace EXCEPT !.branch = "active"]],
                    i), i, rows), i), i, rows, realloc_ok), i)

\* the trace of column i stored beside the struct
ColumnDone(w, i, c) == [m |-> c.m, trace |-> [w.trace EXCEPT ![i] = c.t]]

\* for (i = lo; i < hi; i++) on w = [m, trace], once the columns before
\* lo are done; realloc fails for the columns in fails
RECURSIVE UpdateColumns(_, _, _, _)
UpdateColumns(w, lo, hi, fails) ==
    IF ~Done(w) \/ hi <= lo THEN w
    ELSE IF hi = lo + 1
    THEN ColumnDone(w, lo, UpdateColumn(w.m, lo, CDiv(w.m.height, FONT_HEIGHT),
                                        lo \notin fails))
    ELSE UpdateColumns(UpdateColumns(w, lo, (lo + hi) \div 2, fails),
                       (lo + hi) \div 2, hi, fails)

\* a faulty update: a second pass over the columns when two intervals or
\* more have elapsed
UpdateCatchingUp(mm, tr, clock, fails) ==
    IF Gated(clock, mm.last_update)
    THEN [m |-> mm, trace |-> tr]
    ELSE IF clock - mm.last_update >= 2 * MATRIX_SPEED_MS
    THEN UpdateColumns(
             UpdateColumns([m |-> [mm EXCEPT !.last_update = clock], trace |-> tr],
                           0, mm.columns, fails),
             0, mm.columns, fails)
    ELSE UpdateColumns([m |-> [mm EXCEPT !.last_update = clock], trace |-> tr],
                       0, mm.columns, fails)

\* Matrix_update(matrix) with GetTickCount64() = clock
Matrix_update(mm, tr, clock, fails) ==
    IF Gated(clock, mm.last_update)
    THEN [m |-> mm, trace |-> tr]
    ELSE UpdateColumns([m |-> [mm EXCEPT !.last_update = clock], trace |-> tr],
                       0, mm.columns, fails)

----------------------------------------------------------------------------
(* Matrix_render: the calls it makes on the memory DC, in order.  A glyph  *)
(* draw is the SetTextColor/TextOutW pair of one character; kind says      *)
(* which loop made it: "frozen" (a character of a frozen trail), "active"  *)
(* (a character of the live trail) or "lead" (the highlighted head).       *)

\* the brightest and the dimmest shade of the gradient
BRIGHTEST == 255
DIMMEST == 50
\* a final brightness below this is not drawn
VISIBLE == 5
\* RGB of the leading character at alpha 1.0f
LEAD_RED == 200
LEAD_GREEN == 244
LEAD_BLUE == 248
\* 2^14: an alpha is split in two halves of 14 bits to multiply it
HALF == 16384

RECURSIVE BitLength(_)
BitLength(q) == IF q = 0 THEN 0 ELSE 1 + BitLength(q \div 2)

\* the float product q + rem / 2^28 rounded to 24 bits, then (int): the
\* rounding reaches q + 1 when rem is within half an ulp of it
Rounded(q, rem) == IF rem >= ONE - 2 ^ (BitLength(q) + 3) THEN q + 1 ELSE q

Truncated(z, low) == Rounded(z \div HALF, (z % HALF) * HALF + low)

Product(g, high, low) == Truncated(g * high + (g * low) \div HALF, (g * low) % HALF)

\* (int)(g * alpha) for an int g in 0 .. 255 and a float alpha
Scaled(g, alpha) ==
    IF alpha < 0
    THEN -Product(g, (-alpha) \div HALF, (-alpha) % HALF)
    ELSE Product(g, alpha \div HALF, alpha % HALF)

\* a faulty floor: the visibility threshold in place of 50
FlooredLow(v) == IF v < VISIBLE THEN VISIBLE ELSE v

\* if (v < 50) v = 50
Floored(v) == IF v < DIMMEST THEN DIMMEST ELSE v

\* int gradient_brightness = 255 - (k * (255 / trail_lengths[i])), floored
\* (frozen trails)
gradient_brightness(k, trail_length) ==
    Floored(BRIGHTEST - k * (BRIGHTEST \div trail_length))

\* int brightness = 255 - (j * (255 / trail_lengths[i])), floored (active
\* trails)
brightness(j, trail_length) ==
    Floored(BRIGHTEST - j * (BRIGHTEST \div trail_length))

\* SetTextColor(mem_dc, rgb); TextOutW(mem_dc, x, y, ch, 1), unless the final
\* brightness is below the visible one
Glyph(kind, i, k, x, y, shade, final_brightness, rgb, ch) ==
    IF final_brightness < VISIBLE
    THEN <<>>
    ELSE << [kind |-> kind, column |-> i, index |-> k, x |-> x, y |-> y,
             gradient |-> shade, final_brightness |-> final_brightness,
             rgb |-> rgb, ch |-> ch] >>

Green(kind, i, k, x, y, shade, final_brightness, ch) ==
    Glyph(kind, i, k, x, y, shade, final_brightness,
          <<0, final_brightness, 0>>, ch)

\* character k of a frozen trail of column i
FrozenChar(i, k, x, y, height, shade, trail) ==
    IF y < 0 \/ y > height
    THEN <<>>
    ELSE Green("frozen", i, k, x, y, shade, Scaled(shade, trail.alpha),
               trail.characters[k])

\* for (k = from; k < trail_lengths[i]; k++) of the frozen trails
RECURSIVE FrozenChars(_, _, _, _)
FrozenChars(mm, i, j, from) ==
    IF from >= mm.trail_lengths[i]
    THEN <<>>
    ELSE FrozenChar(i, from, i * mm.char_width,
                    mm.frozen_trails[i][j].y_pos - (from + 1) * FONT_HEIGHT,
                    mm.height,
                    gradient_brightness(from, mm.trail_lengths[i]),
                    mm.frozen_trails[i][j])
         \o FrozenChars(mm, i, j, from + 1)

\* for (j = from; j < frozen_trail_counts[i]; j++)
RECURSIVE FrozenTrails(_, _, _)
FrozenTrails(mm, i, from) ==
    IF from >= mm.frozen_trail_counts[i]
    THEN <<>>
    ELSE FrozenChars(mm, i, from, 0) \o FrozenTrails(mm, i, from + 1)

\* the first loop over the columns, from column from on
RECURSIVE FrozenColumns(_, _)
FrozenColumns(mm, from) ==
    IF from >= mm.columns
    THEN <<>>
    ELSE (IF mm.drops[from] <= INACTIVE THEN <<>> ELSE FrozenTrails(mm, from, 0))
         \o FrozenColumns(mm, from + 1)

\* a faulty on-screen test: characters above the canvas are drawn
ActiveCharUnclipped(i, j, x, ty, height, shade, alpha, ch) ==
    IF ty > height
    THEN <<>>
    ELSE Green("active", i, j, x, ty, shade, Scaled(shade, alpha), ch)

\* character j of the live trail of column i
ActiveChar(i, j, x, ty, height, shade, alpha, ch) ==
    IF ty < 0 \/ ty > height
    THEN <<>>
    ELSE Green("active", i, j, x, ty, shade, Scaled(shade, alpha), ch)

\* for (j = from; j < trail_lengths[i]; j++) of the active trails
RECURSIVE ActiveChars(_, _, _)
ActiveChars(mm, i, from) ==
    IF from >= mm.trail_lengths[i]
    THEN <<>>
    ELSE ActiveChar(i, from, i * mm.char_width,
                    mm.drops[i] * FONT_HEIGHT - (from + 1) * FONT_HEIGHT,
                    mm.height, brightness(from, mm.trail_lengths[i]),
                    mm.trail_alphas[i], mm.trail_chars[i][from])
         \o ActiveChars(mm, i, from + 1)

\* the leading character, drawn at the trail's base when lead_brightness >= 5
Lead(i, x, y, lead_brightness, alpha, ch) ==
    Glyph("lead", i, 0, x, y, BRIGHTEST, lead_brightness,
          <<Scaled(LEAD_RED, alpha), Scaled(LEAD_GREEN, alpha),
            Scaled(LEAD_BLUE, alpha)>>, ch)

ActiveTrail(mm, i) ==
    ActiveChars(mm, i, 0)
    \o Lead(i, i * mm.char_width, mm.drops[i] * FONT_HEIGHT,
            Scaled(BRIGHTEST, mm.trail_alphas[i]), mm.trail_alphas[i],
            mm.trail_chars[i][0])

\* the second loop over the columns, from column from on
RECURSIVE ActiveColumns(_, _)
ActiveColumns(mm, from) ==
    IF from >= mm.columns
    THEN <<>>
    ELSE (IF mm.drops[from] <= INACTIVE \/ mm.frozen[from]
          THEN <<>>
          ELSE ActiveTrail(mm, from))
         \o ActiveColumns(mm, from + 1)

\* FillRect(mem_dc, {0, 0, width, height}, black brush)
FillRect(mm) ==
    [kind |-> "clear", right |-> mm.width, bottom |-> mm.height,
     rgb |-> <<0, 0, 0>>]

\* BitBlt(hdc, 0, 0, width, height, mem_dc, 0, 0, SRCCOPY)
BitBlt(mm) == [kind |-> "present", width |-> mm.width, height |-> mm.height]

\* a faulty order: the active trails drawn before the frozen ones
RenderActiveFirst(mm, dc_ok, bitmap_ok) ==
    IF ~dc_ok \/ ~bitmap_ok
    THEN <<>>
    ELSE <<FillRect(mm)>> \o ActiveColumns(mm, 0) \o FrozenColumns(mm, 0)
         \o <<BitBlt(mm)>>

\* Matrix_render(matrix, hdc): nothing is drawn when the memory DC or its
\* bitmap cannot be created
Matrix_render(mm, dc_ok, bitmap_ok) ==
    IF ~dc_ok \/ ~bitmap_ok
    THEN <<>>
    ELSE <<FillRect(mm)>> \o FrozenColumns(mm, 0) \o ActiveColumns(mm, 0)
         \o <<BitBlt(mm)>>

----------------------------------------------------------------------------
(* The host (main.c): it creates the engine once, calls Matrix_update from *)
(* its loop and Matrix_render when the window is painted, and calls        *)
(* Matrix_deinit on the pointer it holds, which it does not reset          *)
(* afterwards.                                                             *)

Init ==
    /\ matrix = "NULL"
    /\ m = NoMatrix
    /\ heap = NoHeap
    /\ now \in StartClocks
    /\ fault = "none"
    /\ last = [op |-> "start"]
    /\ trace = <<>>
    /\ ticks = 0
    /\ frame = <<>>

\* the host's pointer and the engine after Matrix_init returned r
Created(r, width, height, char_width, fail) ==
    /\ matrix' = IF r.result = "engine" THEN "live" ELSE "NULL"
    /\ m' = r.m
    /\ heap' = r.heap
    /\ fault' = r.fault
    /\ trace' = [i \in 0 .. r.m.columns - 1 |-> NoTrace]
    /\ last' = [op |-> "init", width |-> width, height |-> height,
                char_width |-> char_width,
                fail |-> IF r.result = "engine" THEN "none" ELSE fail,
                result |-> r.result]

\* matrix = Matrix_init(hwnd, screenWidth, screenHeight)
MatrixInit(width, height, ave, seed, fail, fail_col) ==
    /\ last.op = "start"
    /\ Created(Matrix_init(width, height, ave, seed, now, fail, fail_col),
               width, height, ave + CHAR_PADDING, fail)
    /\ UNCHANGED <<now, ticks, frame>>

\* the engine after Matrix_update returned r
Updated(r, gated) ==
    /\ m' = r.m
    /\ trace' = r.trace
    /\ heap' = [heap EXCEPT !.frozen_trails =
                  [i \in DOMAIN @ |->
                     IF r.m.frozen_trail_capacities[i] > 0 THEN "live" ELSE @[i]]]
    /\ ticks' = IF gated THEN ticks ELSE ticks + 1
    /\ last' = [op |-> "update", gated |-> gated]

\* Matrix_update(matrix), dt milliseconds after the previous call; realloc
\* returns NULL when asked to grow the frozen trails of a column in fails
Update(dt, fails) ==
    /\ matrix = "live"
    /\ fault = "none"
    /\ ticks < MaxTicks
    /\ now' = now + dt
    /\ Updated(Matrix_update(m, trace, now + dt, fails), Gated(now + dt, m.last_update))
    /\ frame' = <<>>
    /\ UNCHANGED <<matrix, fault>>

\* the heap after Matrix_deinit returned r
Destroyed(r) == heap' = r.heap /\ fault' = r.fault

\* Matrix_deinit(matrix) on whatever the host's pointer is: NULL, the live
\* engine, or the engine already destroyed.  In the last case the struct is
\* read after its release: the call may fault there, or find the old
\* contents and free everything a second time.
Deinit ==
    /\ last.op # "start"
    /\ fault = "none"
    /\ \/ /\ matrix = "NULL"
          /\ UNCHANGED <<matrix, m, heap, fault>>
       \/ /\ matrix = "live"
          /\ Destroyed(Matrix_deinit(heap, m.columns))
          /\ matrix' = "dangling"
          /\ m' = m
       \/ /\ matrix = "dangling"
          /\ fault' = "use_after_free"
          /\ \E stale \in BOOLEAN : heap' = IF stale THEN FreeAll(heap) ELSE heap
          /\ UNCHANGED <<matrix, m>>
    /\ last' = [op |-> "deinit", arg |-> matrix]
    /\ frame' = <<>>
    /\ UNCHANGED <<now, trace, ticks>>

Next ==
    \/ \E width \in Widths, height \in Heights, ave \in AveCharWidths,
          seed \in Seeds, fail \in FailSites, fail_col \in 0 .. MaxFailColumn :
            MatrixInit(width, height, ave, seed, fail, fail_col)
    \/ \E dt \in Delays, fails \in SUBSET DOMAIN trace : Update(dt, fails)
    \/ Deinit

Spec == Init /\ [][Next]_vars

\* Matrix_init alone, no call failing, over a range of canvas widths and
\* font metrics
NextCreate ==
    \/ \E width \in CreateWidths, height \in CreateHeights,
          ave \in CreateAveCharWidths, seed \in CreateSeeds :
            MatrixInit(width, height, ave, seed, "none", 0)
    \/ Deinit

SpecCreate == Init /\ [][NextCreate]_vars

\* delays of a host that is at times held up for many intervals
ClockDelays == {35, 70, 700}
ClockSeeds == {105}
ClockHeights == {40}

\* the update loop of a host whose calls come early, in time or late
NextClock ==
    \/ \E width \in Widths, height \in ClockHeights, ave \in AveCharWidths,
          seed \in ClockSeeds :
            MatrixInit(width, height, ave, seed, "none", 0)
    \/ \E dt \in ClockDelays : Update(dt, {})
    \/ Deinit

SpecClock == Init /\ [][NextClock]_vars

\* the frame after Matrix_render made the calls
Rendered(calls) ==
    /\ frame' = calls
    /\ last' = [op |-> "render", drawn |-> calls # <<>>]

\* WM_PAINT: if (matrix) Matrix_render(matrix, hdc)
Render(dc_ok, bitmap_ok) ==
    /\ matrix = "live"
    /\ fault = "none"
    /\ Rendered(Matrix_render(m, dc_ok, bitmap_ok))
    /\ UNCHANGED <<matrix, m, heap, now, fault, trace, ticks>>

\* seeds and canvas heights of the specification with painting
RenderSeeds == {105, 827, 1429}
RenderHeights == {10, 40, 200}

\* updates and paints of an engine whose creation succeeded
NextRender ==
    \/ \E width \in Widths, height \in RenderHeights, ave \in AveCharWidths,
          seed \in RenderSeeds :
            MatrixInit(width, height, ave, seed, "none", 0)
    \/ \E dt \in Delays : Update(dt, {})
    \/ \E dc_ok, bitmap_ok \in BOOLEAN : Render(dc_ok, bitmap_ok)
    \/ Deinit

SpecRender == Init /\ [][NextRender]_vars

\* a stored trail of one repeated glyph at vertical position y_pos
OneGlyphTrail(y_pos, alpha) ==
    [characters |-> [c \in 0 .. FROZEN_CHARS - 1 |-> letters[1]],
     y_pos |-> y_pos, alpha |-> alpha]

\* the body of the two character loops of Matrix_render for character k of
\* a trail of trail_length characters that is on screen at alpha 1.0f:
\* first as the frozen loop draws it, then as the active loop does
Shading(trail_length, k) ==
    /\ last.op \in {"start", "shade"}
    /\ frame' = FrozenChar(0, k, 0, 0, 0, gradient_brightness(k, trail_length),
                           OneGlyphTrail((k + 1) * FONT_HEIGHT, ONE))
                 \o ActiveChar(0, k, 0, 0, 0, brightness(k, trail_length), ONE,
                               letters[1])
    /\ last' = [op |-> "shade", trail_length |-> trail_length, index |-> k]
    /\ UNCHANGED <<matrix, m, heap, now, fault, trace, ticks>>

\* the gradient over every trail length and every index of the trail
NextShade ==
    \E trail_length \in MIN_TRAIL_LENGTH .. MAX_TRAIL_LENGTH,
       k \in 0 .. MAX_TRAIL_LENGTH - 1 :
        k < trail_length /\ Shading(trail_length, k)

SpecShade == Init /\ [][NextShade]_vars

----------------------------------------------------------------------------
(* Properties.  A step with ticks' = ticks + 1 is an effective tick: a     *)
(* call of Matrix_update that passed the rate limit.                       *)

\* int screen_height_in_chars = matrix->height / FONT_HEIGHT
screen_height_in_chars == CDiv(m.height, FONT_HEIGHT)

\* rng_int_range(0, rows) draws from [0, rows), and gives 0 when rows <= 0:
\* the start positions -rng_int_range(0, rows) lie in (-max(rows, 1), 0]
IsStartPosition(v, rows) == v <= 0 /\ v > -(IF rows > 1 THEN rows ELSE 1)

\* no storage released twice
NoDoubleRelease ==
    /\ heap.matrix # "released_twice"
    /\ heap.font # "released_twice"
    /\ \A a \in TopArrays : heap.arrays[a] # "released_twice"
    /\ \A i \in DOMAIN heap.trail_chars : heap.trail_chars[i] # "released_twice"
    /\ \A i \in DOMAIN heap.frozen_trails : heap.frozen_trails[i] # "released_twice"

\* every resource either never acquired or released once
NothingHeld ==
    /\ heap.matrix \in {"none", "released"}
    /\ heap.dc \in {"none", "released"}
    /\ heap.font \in {"none", "released"}
    /\ \A a \in TopArrays : heap.arrays[a] \in {"none", "released"}
    /\ \A i \in DOMAIN heap.trail_chars : heap.trail_chars[i] \in {"none", "released"}
    /\ \A i \in DOMAIN heap.frozen_trails : heap.frozen_trails[i] \in {"none", "released"}

\* C1: a Matrix_update called when fewer than 70 ms have elapsed since
\* last_update changes nothing: positions, characters, trail lengths,
\* alphas, frozen flags, frozen trails, the RNG state and last_update (all
\* of them fields of m) are as before the call, and so is the heap.
C1_GatedUpdateChangesNothing ==
    [][(last'.op = "update" /\ now' - m.last_update < MATRIX_SPEED_MS)
          => (m' = m /\ heap' = heap)]_vars

\* C1, its case: a call that came too early, after the engine has ticked
C1_EarlyCallAfterTick ==
    /\ last.op = "update"
    /\ ticks > 0
    /\ 0 < now - m.last_update
    /\ now - m.last_update < MATRIX_SPEED_MS

C4_CaptureIsACopy ==
    [][ticks' = ticks + 1 =>
         \A i \in DOMAIN trace :
            /\ trace'[i].captured =>
                 /\ m'.frozen_trail_counts[i] = m.frozen_trail_counts[i] + 1
                 /\ \A k \in 1 .. m'.trail_lengths[i] - 1 :
                       m'.frozen_trails[i][m.frozen_trail_counts[i]].characters[k]
                           = m.trail_chars[i][k - 1]
                 /\ m'.frozen_trails[i][m.frozen_trail_counts[i]].characters[0]
                       = m'.trail_chars[i][0]
                 /\ m'.frozen_trails[i][m.frozen_trail_counts[i]].y_pos
                       = FONT_HEIGHT *
                           (1 + IF trace'[i].restart_pos # <<>>
                                THEN trace'[i].restart_pos[1] ELSE m.drops[i])
            /\ trace'[i].removed = 0 =>
                 \A j \in 0 .. m.frozen_trail_counts[i] - 1 :
                    /\ m'.frozen_trails[i][j].characters = m.frozen_trails[i][j].characters
                    /\ m'.frozen_trails[i][j].y_pos = m.frozen_trails[i][j].y_pos]_vars

\* C4, its case: a captured entry is still there after the live trail had
\* one of its characters replaced, and differs from the live trail
C4_SnapshotOutlivesLiveChange ==
    /\ last.op = "update"
    /\ \E i \in DOMAIN trace :
          /\ m.frozen_trail_counts[i] = 1
          /\ trace[i].branch = "frozen"
          /\ trace[i].mutated # <<>>
          /\ \E k \in 0 .. m.trail_lengths[i] - 1 :
                m.frozen_trails[i][0].characters[k] # m.trail_chars[i][k]

\* C5: in each effective tick every frozen_trails entry has its alpha
\* reduced by FADE_RATE exactly once (the entry captured in the tick
\* included); an entry is removed in exactly the tick in which its alpha
\* becomes <= 0 and every other entry is kept; a frozen column with no
\* entry left unfreezes at its next tick with a new position, a new trail
\* length and alpha 1.
C5_FrozenTrailsDrain ==
    [][ticks' = ticks + 1 =>
         \A i \in DOMAIN trace :
            /\ trace'[i].removed =
                 Cardinality({j \in 0 .. m.frozen_trail_counts[i] - 1 :
                                F32Sub(m.frozen_trails[i][j].alpha, FADE_RATE) <= 0})
            /\ m'.frozen_trail_counts[i] =
                 m.frozen_trail_counts[i] - trace'[i].removed
                     + (IF trace'[i].captured THEN 1 ELSE 0)
            /\ \A j \in 0 .. m.frozen_trail_counts[i] - 1 :
                  F32Sub(m.frozen_trails[i][j].alpha, FADE_RATE) > 0 =>
                     \E k \in 0 .. m'.frozen_trail_counts[i] - 1 :
                        m'.frozen_trails[i][k] =
                           [m.frozen_trails[i][j] EXCEPT
                               !.alpha = F32Sub(@, FADE_RATE)]
            /\ trace'[i].captured =>
                  \E k \in 0 .. m'.frozen_trail_counts[i] - 1 :
                     m'.frozen_trails[i][k].alpha = F32Sub(ONE, FADE_RATE)
            /\ (m.drops[i] > INACTIVE /\ m.frozen[i] /\ m.frozen_trail_counts[i] = 0)
                  => /\ ~m'.frozen[i]
                     /\ IsStartPosition(m'.drops[i], screen_height_in_chars)
                     /\ m'.trail_lengths[i] \in MIN_TRAIL_LENGTH .. MAX_TRAIL_LENGTH
                     /\ m'.trail_alphas[i] = ONE]_vars

\* C5, its case: a column whose frozen trail faded out and was removed has
\* unfrozen
C5_UnfrozenAfterDrain ==
    /\ last.op = "update"
    /\ \E i \in DOMAIN trace :
          /\ trace[i].branch = "unfrozen"
          /\ m.frozen_trail_capacities[i] > 0
          /\ m.frozen_trail_counts[i] = 0

\* C6, as the specification states it: Matrix_deinit called a second time
\* on an engine already destroyed is a safe no-op: it reads no released
\* storage and releases nothing twice
C6_SecondDeinitIsSafe ==
    (last.op = "deinit" /\ last.arg = "dangling")
        => (fault = "none" /\ NoDoubleRelease)

\* C7, as the specification states it: whichever allocation of Matrix_init
\* fails, Matrix_init returns NULL, has released every resource it acquired
\* exactly once, and its cleanup read through no pointer that is NULL
C7_AllocationFailureIsCleanedUp ==
    (last.op = "init" /\ last.fail \in {"malloc", "column"} \cup TopArrays)
        => (last.result = "NULL" /\ fault = "none" /\ NothingHeld)

\* C8, as the specification states it: when growing a column's frozen-trail
\* storage fails, the column is not marked frozen and no entry is added
C8_ReallocFailureOnlyDropsFreeze ==
    \A i \in DOMAIN trace :
        trace[i].realloc_failed => (~m.frozen[i] /\ ~trace[i].captured)

\* C9, as the specification states it: for every width smaller than the
\* character-cell width, and for every non-positive cell width, Matrix_init
\* returns no engine
C9_NarrowCanvasFails ==
    (last.op = "init" /\ (last.width < last.char_width \/ last.char_width <= 0))
        => last.result # "engine"

\* C10, as the specification states it: on a successful Matrix_init the
\* column count is min(floor(width / cell_width), 500)
C10_ColumnCountIsCappedQuotient ==
    (last.op = "init" /\ last.result = "engine")
        => m.columns = (IF last.width \div last.char_width < MAX_COLUMNS
                        THEN last.width \div last.char_width ELSE MAX_COLUMNS)

\* C11: for an engine freshly created with a height of at least one
\* character cell, after the first effective tick every column that was
\* active at creation is one row further down, and its characters are
\* shifted down by one (apart from at most one replaced index >= 1) below a
\* freshly drawn character of letters[] at index 0; for column 0 that
\* character is the first draw of the tick.
C11_FirstTickAdvancesByOne ==
    [][(ticks = 0 /\ ticks' = 1 /\ m.height >= FONT_HEIGHT) =>
         \A i \in DOMAIN trace :
            m.drops[i] > INACTIVE =>
               /\ m'.drops[i] = m.drops[i] + 1
               /\ m'.trail_lengths[i] = m.trail_lengths[i]
               /\ \A j \in 1 .. m.trail_lengths[i] - 1 :
                     \/ m'.trail_chars[i][j] = m.trail_chars[i][j - 1]
                     \/ trace'[i].mutated = <<j>>
               /\ \E k \in 1 .. Len(letters) : m'.trail_chars[i][0] = letters[k]
               /\ i = 0 => m'.trail_chars[i][0] = random_char(m.rng_state).value]_vars

\* C11, its case: the first tick of a fresh engine at least one row high
\* has advanced a column and replaced one of its characters
C11_FirstTickDone ==
    /\ last.op = "update"
    /\ ticks = 1
    /\ m.height >= FONT_HEIGHT
    /\ \E i \in DOMAIN trace : trace[i].shifted /\ trace[i].mutated # <<>>

\* C12: in every reachable state every column's trail_length is an integer
\* in [30, 40], after Matrix_init and after any sequence of ticks.
C12_TrailLengthInRange ==
    \A i \in DOMAIN m.trail_lengths :
        m.trail_lengths[i] \in MIN_TRAIL_LENGTH .. MAX_TRAIL_LENGTH

\* C12, its case: a column whose length was drawn anew in a tick and
\* stays within the range
C12_RedrawnLength ==
    /\ last.op = "update"
    /\ \E i \in DOMAIN trace :
          /\ trace[i].branch \in {"unfrozen", "reactivated"}
          /\ m.trail_lengths[i] \in MIN_TRAIL_LENGTH .. MAX_TRAIL_LENGTH

\* C13: after Matrix_init and after each completed Matrix_update every
\* column's alpha, and the alpha of every frozen_trails entry still stored,
\* lies within [0, 1].
C13_AlphaInUnitInterval ==
    \A i \in DOMAIN m.trail_alphas :
        /\ 0 <= m.trail_alphas[i] /\ m.trail_alphas[i] <= ONE
        /\ \A j \in 0 .. m.frozen_trail_counts[i] - 1 :
              /\ 0 <= m.frozen_trails[i][j].alpha
              /\ m.frozen_trails[i][j].alpha <= ONE

\* C13, its case: a frozen trail one tick before its removal, alpha below
\* FADE_RATE
C13_EntryAlmostFaded ==
    \E i \in DOMAIN m.trail_alphas :
        /\ m.frozen_trail_counts[i] > 0
        /\ m.frozen_trails[i][0].alpha < FADE_RATE

\* C17: while a column's frozen flag is set, ticks do not advance it: in
\* every tick that starts with the column frozen and a frozen trail still
\* stored, the column stays frozen, its position, alpha and trail_length are
\* unchanged, and its characters are not shifted (at most one of index >= 1
\* is replaced).
C17_FrozenColumnStandsStill ==
    [][ticks' = ticks + 1 =>
         \A i \in DOMAIN trace :
            (m.drops[i] > INACTIVE /\ m.frozen[i] /\ m.frozen_trail_counts[i] > 0)
               => /\ m'.frozen[i]
                  /\ m'.drops[i] = m.drops[i]
                  /\ m'.trail_alphas[i] = m.trail_alphas[i]
                  /\ m'.trail_lengths[i] = m.trail_lengths[i]
                  /\ ~trace'[i].shifted
                  /\ \A j \in DOMAIN m.trail_chars[i] :
                        \/ m'.trail_chars[i][j] = m.trail_chars[i][j]
                        \/ (j >= 1 /\ trace'[i].mutated = <<j>>)]_vars

\* C17, its case: a column that has stood frozen for more than half of its
\* frozen trail's life
C17_LongFrozen ==
    /\ last.op = "update"
    /\ \E i \in DOMAIN trace :
          /\ trace[i].branch = "frozen"
          /\ m.frozen[i]
          /\ m.frozen_trail_counts[i] = 1
          /\ m.frozen_trails[i][0].alpha < ONE \div 2

\* C19, as the specification states it: in a tick in which a fading column's
\* alpha reaches <= 0 and the column restarts, no frozen trail is captured
\* and the column is not marked frozen, whatever the canvas height
C19_RestartBypassesFreeze ==
    \A i \in DOMAIN trace :
        trace[i].restart_pos # <<>> =>
            (~trace[i].freeze_fired /\ ~trace[i].captured /\ ~m.frozen[i])

IsGlyph(call) == call.kind \in {"frozen", "active", "lead"}

\* the draws of the second loop: the live trail and its highlighted head
IsActiveDraw(call) == call.kind \in {"active", "lead"}

\* C14: in one render call the background clear comes before every glyph
\* draw, every frozen-trail draw of any column comes before every
\* active-trail draw, an inactive column has no draw at all and a frozen
\* column has no active-trail draw.
C14_RenderOrder ==
    frame # <<>> =>
        /\ frame[1].kind = "clear"
        /\ \A p \in DOMAIN frame : IsGlyph(frame[p]) => p > 1
        /\ \A p, q \in DOMAIN frame :
              frame[p].kind = "frozen" /\ IsActiveDraw(frame[q]) => p < q
        /\ \A p \in DOMAIN frame :
              IsGlyph(frame[p]) => m.drops[frame[p].column] > INACTIVE
        /\ \A p \in DOMAIN frame :
              IsActiveDraw(frame[p]) => ~m.frozen[frame[p].column]

\* C14 witness: a frame with draws of a frozen column's stored trail and of
\* another column's live trail
C14_BothLayersDrawn ==
    /\ frame # <<>>
    /\ \E p, q \in DOMAIN frame :
          /\ frame[p].kind = "frozen"
          /\ m.frozen[frame[p].column]
          /\ frame[q].kind = "active"

\* the larger of two integers
Max(a, b) == IF a >= b THEN a ELSE b

\* C15: for a trail of L characters, 30 <= L <= 40, and an index k < L, the
\* brightness before the alpha is applied is max(50, 255 - k * floor(255 / L))
\* in the frozen loop and in the active loop alike: 255 at k = 0, never
\* below 50, not above the brightness of the index before, and exactly 50
\* for L = 30 and k = 29.
C15_GradientFormula ==
    last.op = "shade" =>
        /\ Len(frame) = 2
        /\ frame[1].kind = "frozen" /\ frame[2].kind = "active"
        /\ frame[1].gradient = frame[2].gradient
        /\ frame[1].gradient =
              Max(50, 255 - last.index * (255 \div last.trail_length))
        /\ frame[1].gradient >= 50
        /\ last.index = 0 => frame[1].gradient = 255
        /\ last.index > 0 =>
              /\ frame[1].gradient
                    <= gradient_brightness(last.index - 1, last.trail_length)
              /\ frame[2].gradient
                    <= brightness(last.index - 1, last.trail_length)
        /\ last.trail_length = 30 /\ last.index = 29 => frame[1].gradient = 50

\* C15 witness: the last character of a trail of 30, drawn at the floor of 50
\* in both loops
C15_LastOfThirtyAtFloor ==
    /\ last.op = "shade"
    /\ last.trail_length = 30
    /\ last.index = 29
    /\ Len(frame) = 2
    /\ frame[1].gradient = 50
    /\ frame[2].gradient = 50

\* C16: every glyph draw of a frame, the leading highlight included, is at a
\* vertical position within [0, height] and has a final brightness of at
\* least 5.
C16_DrawsOnScreenAndVisible ==
    \A p \in DOMAIN frame :
        IsGlyph(frame[p]) =>
            /\ frame[p].y >= 0
            /\ frame[p].y <= m.height
            /\ frame[p].final_brightness >= 5

\* column i has a highlighted head in the frame
LeadDrawn(calls, i) ==
    \E p \in DOMAIN calls : calls[p].kind = "lead" /\ calls[p].column = i

\* column i has a draw of its live trail in the frame
ActiveDrawn(calls, i) ==
    \E p \in DOMAIN calls : IsActiveDraw(calls[p]) /\ calls[p].column = i

\* C18: the tick in which a freeze stores the trail restarts the live trail
\* (start position, alpha 1); in every later tick in which the stored trail
\* is still decaying the column advances by one, and every frame drawn
\* meanwhile shows the column's live trail.
C18_FrozenColumnKeepsFalling ==
    [][/\ ticks' = ticks + 1 =>
            \A i \in DOMAIN trace :
               /\ trace'[i].captured =>
                     /\ IsStartPosition(m'.drops[i], CDiv(m.height, FONT_HEIGHT))
                     /\ m'.trail_alphas[i] = ONE
               /\ (m.frozen_trail_counts[i] > 0 /\ m'.frozen_trail_counts[i] > 0) =>
                     m'.drops[i] = m.drops[i] + 1
       /\ (last'.op = "render" /\ frame' # <<>>) =>
            \A i \in DOMAIN trace :
               m'.frozen_trail_counts[i] > 0 => LeadDrawn(frame', i)]_vars

\* C18 as the program behaves: the tick in which a freeze stores the trail
\* marks the column frozen, stores one more frozen trail, moves the position
\* to a start position and sets alpha to 1, the trail_length staying as it
\* was unless the trail restarted in the same tick; while the column is
\* frozen with a trail stored its position does not change in a tick, and no
\* frame shows a live trail for a frozen column.
C18_FreezeHoldsTheColumn ==
    [][/\ ticks' = ticks + 1 =>
            \A i \in DOMAIN trace :
               /\ trace'[i].captured =>
                     /\ ~m.frozen[i]
                     /\ m'.frozen[i]
                     /\ m'.frozen_trail_counts[i] = m.frozen_trail_counts[i] + 1
                     /\ IsStartPosition(m'.drops[i], CDiv(m.height, FONT_HEIGHT))
                     /\ m'.trail_alphas[i] = ONE
                     /\ trace'[i].restart_pos = <<>> =>
                           m'.trail_lengths[i] = m.trail_lengths[i]
               /\ (m.frozen[i] /\ m.frozen_trail_counts[i] > 0) =>
                     /\ m'.frozen[i]
                     /\ m'.drops[i] = m.drops[i]
       /\ (last'.op = "render" /\ frame' # <<>>) =>
            \A i \in DOMAIN trace :
               m'.frozen[i] => ~ActiveDrawn(frame', i)]_vars

\* C18 witness: a frame drawn right after the tick of a freeze, showing the
\* stored trail of the column and no live trail for it
C18_FrozenColumnPainted ==
    /\ last.op = "render"
    /\ \E i \in DOMAIN trace :
          /\ trace[i].captured
          /\ m.frozen[i]
          /\ m.frozen_trail_counts[i] > 0
          /\ m.drops[i] <= 0
          /\ \E p \in DOMAIN frame :
                frame[p].kind = "frozen" /\ frame[p].column = i
          /\ ~ActiveDrawn(frame, i)

\* the glyphs random_char can return
Palette == {letters[n] : n \in 1 .. Len(letters)}

\* C21: in every state of a created engine each of the first trail_length
\* characters of every column is a glyph of the palette, never the
\* terminator 0 nor a character nothing was written to.
C21_TrailCharsArePaletteGlyphs ==
    matrix = "live" =>
        \A i \in DOMAIN m.trail_chars :
            \A j \in 0 .. m.trail_lengths[i] - 1 :
                m.trail_chars[i][j] \in Palette

\* C22: a column's trail_length changes only in an effective tick in which
\* the column is reactivated, unfrozen or restarted after fading out, its
\* position being re-seeded and its alpha being 1 after the tick; no other
\* tick, no gated call and no render call changes a trail_length.
C22_LengthChangesOnlyAtRestart ==
    [][\A i \in DOMAIN m.trail_lengths :
          (matrix' = "live" /\ m'.trail_lengths[i] # m.trail_lengths[i]) =>
              /\ ticks' = ticks + 1
              /\ last'.op = "update"
              /\ \/ /\ trace'[i].branch \in {"reactivated", "unfrozen"}
                    /\ IsStartPosition(m'.drops[i], CDiv(m.height, FONT_HEIGHT))
                 \/ /\ trace'[i].branch = "active"
                    /\ trace'[i].restart_pos # <<>>
                    /\ IsStartPosition(trace'[i].restart_pos[1],
                                       CDiv(m.height, FONT_HEIGHT))
              /\ m'.trail_alphas[i] = ONE]_vars

\* C22 witness: a tick in which a faded trail restarted with a length that
\* reaches into characters no earlier trail of the column had
C22_RestartLengthened ==
    /\ last.op = "update"
    /\ \E i \in DOMAIN trace :
          /\ trace[i].restart_pos # <<>>
          /\ m.trail_alphas[i] = ONE
          /\ m.trail_chars[i][m.trail_lengths[i] - 1] = 0

\* the alpha a fading trail has after the tick its fade started in
FirstFadeLevel == F32Sub(F32Sub(ONE, FADE_RATE), FADE_RATE)

\* alpha is one of the values the fade goes through from level on, each
\* FADE_RATE below the one before, down to the last one above 0
RECURSIVE OnFade(_, _)
OnFade(level, alpha) ==
    IF level <= 0 THEN FALSE
    ELSE level = alpha \/ OnFade(F32Sub(level, FADE_RATE), alpha)

\* C23: a fade starts only in a tick that finds the column active, at a
\* position > 0 and at alpha 1, and that tick lowers alpha by FADE_RATE
\* twice; every later tick lowers it by FADE_RATE once, alpha never rising,
\* until the tick in which it would reach 0 or less, where the column
\* restarts at alpha 1.  The alpha of a fading trail is always one of the
\* values of that fixed descent, so the number of ticks from the start of a
\* fade to its restart is fixed.
C23_FadeRunsToRestart ==
    [][ticks' = ticks + 1 =>
         \A i \in DOMAIN trace :
            /\ trace'[i].fade_started =>
                  /\ m.drops[i] > 0
                  /\ m.trail_alphas[i] = ONE
                  /\ ~m.frozen[i]
                  /\ m'.trail_alphas[i] = FirstFadeLevel
            /\ m.trail_alphas[i] < ONE =>
                  \/ /\ F32Sub(m.trail_alphas[i], FADE_RATE) > 0
                     /\ m'.trail_alphas[i] = F32Sub(m.trail_alphas[i], FADE_RATE)
                     /\ m'.trail_alphas[i] < m.trail_alphas[i]
                     /\ trace'[i].restart_pos = <<>>
                  \/ /\ F32Sub(m.trail_alphas[i], FADE_RATE) <= 0
                     /\ trace'[i].restart_pos # <<>>
                     /\ m'.trail_alphas[i] = ONE
            /\ m'.trail_alphas[i] < m.trail_alphas[i] =>
                  (trace'[i].fade_started \/ m.trail_alphas[i] < ONE)
            /\ \/ m'.trail_alphas[i] = ONE
               \/ OnFade(FirstFadeLevel, m'.trail_alphas[i])]_vars

\* C23 witness: a fading trail at its last value above 0, one tick before
\* its restart
C23_FadeAtLastLevel ==
    /\ last.op = "update"
    /\ \E i \in DOMAIN trace :
          /\ trace[i].branch = "active"
          /\ m.trail_alphas[i] > 0
          /\ m.trail_alphas[i] < FADE_RATE

\* C24: a tick changes an inactive column only by reactivating it.  Its
\* characters, frozen flag and frozen trails are never touched (no
\* mutation, no fade-out of frozen trails, no shift); when the reactivation
\* does not fire, position, trail_length and alpha stay as they are; when it
\* fires, the position is a start position, the trail_length is drawn anew
\* and alpha is 1, and the column does not advance in that tick.
C24_InactiveColumnOnlyReactivates ==
    [][ticks' = ticks + 1 =>
         \A i \in DOMAIN trace :
            m.drops[i] <= INACTIVE =>
               /\ trace'[i].branch \in {"inactive", "reactivated"}
               /\ m'.trail_chars[i] = m.trail_chars[i]
               /\ m'.frozen[i] = m.frozen[i]
               /\ m'.frozen_trails[i] = m.frozen_trails[i]
               /\ m'.frozen_trail_counts[i] = m.frozen_trail_counts[i]
               /\ m'.frozen_trail_capacities[i] = m.frozen_trail_capacities[i]
               /\ trace'[i].mutated = <<>>
               /\ trace'[i].removed = 0
               /\ ~trace'[i].shifted
               /\ trace'[i].branch = "inactive" =>
                     /\ m'.drops[i] = m.drops[i]
                     /\ m'.trail_lengths[i] = m.trail_lengths[i]
                     /\ m'.trail_alphas[i] = m.trail_alphas[i]
               /\ trace'[i].branch = "reactivated" =>
                     /\ IsStartPosition(m'.drops[i], CDiv(m.height, FONT_HEIGHT))
                     /\ m'.trail_lengths[i] \in MIN_TRAIL_LENGTH .. MAX_TRAIL_LENGTH
                     /\ m'.trail_alphas[i] = ONE]_vars

\* C24 witness: an inactive column reactivated by the last tick, at its
\* start position
C24_JustReactivated ==
    /\ last.op = "update"
    /\ \E i \in DOMAIN trace :
          /\ trace[i].branch = "reactivated"
          /\ ~trace[i].shifted
          /\ m.drops[i] > INACTIVE
          /\ m.drops[i] <= 0

\* the branches of the column loop of Matrix_update
Branches == {"inactive", "reactivated", "frozen", "unfrozen", "active"}

\* C25: an effective update stores the current time in last_update and
\* runs the column loop once over every column, whatever time has elapsed:
\* no position grows by more than one and a shifted trail is shifted by one
\* index.  last_update never decreases, and it grows by at least 70 ms from
\* one effective tick to the next.
C25_OneTickPerEffectiveUpdate ==
    [][/\ (matrix = "live" /\ matrix' = "live") =>
             m'.last_update >= m.last_update
       /\ (last'.op = "update" /\ ticks' = ticks) =>
             m'.last_update = m.last_update
       /\ ticks' = ticks + 1 =>
             /\ m'.last_update = now'
             /\ m'.last_update - m.last_update >= MATRIX_SPEED_MS
             /\ \A i \in DOMAIN trace :
                   /\ trace'[i].branch \in Branches
                   /\ m'.drops[i] <= m.drops[i] + 1 \/ m.drops[i] <= INACTIVE
                   /\ (trace'[i].shifted /\ trace'[i].restart_pos = <<>>
                         /\ ~trace'[i].captured) =>
                         /\ m'.drops[i] = m.drops[i] + 1
                         /\ \A j \in 1 .. m.trail_lengths[i] - 1 :
                               \/ m'.trail_chars[i][j] = m.trail_chars[i][j - 1]
                               \/ trace'[i].mutated = <<j>>]_vars

\* C25 witness: the first effective tick, made ten intervals or more after
\* the engine was created, with a trail shifted in it
C25_LateFirstTick ==
    /\ last.op = "update"
    /\ ticks = 1
    /\ m.last_update = now
    /\ \E clock \in StartClocks : now - clock >= 10 * MATRIX_SPEED_MS
    /\ \E i \in DOMAIN trace : trace[i].shifted

\* C26: of an active, non-frozen column the character of index 0 is drawn in
\* the near-white tone only, (200, 244, 248) scaled by alpha, one cell above
\* the trail's base; the green draws of a live trail are of indices >= 1,
\* and every character of a frozen trail is drawn in green only.
C26_LeadDrawnOnceInWhite ==
    \A p \in DOMAIN frame :
        /\ frame[p].kind = "active" =>
              /\ frame[p].index >= 1
              /\ frame[p].rgb = <<0, frame[p].final_brightness, 0>>
        /\ frame[p].kind = "lead" =>
              /\ frame[p].index = 0
              /\ frame[p].y =
                    m.drops[frame[p].column] * FONT_HEIGHT - FONT_HEIGHT
              /\ frame[p].rgb =
                    <<Scaled(200, m.trail_alphas[frame[p].column]),
                      Scaled(244, m.trail_alphas[frame[p].column]),
                      Scaled(248, m.trail_alphas[frame[p].column])>>
        /\ frame[p].kind = "frozen" =>
              frame[p].rgb = <<0, frame[p].final_brightness, 0>>

\* C27: a column never holds more than one frozen trail and holds none
\* while its frozen flag is clear; a trail is stored only in a tick that
\* finds the column not frozen and without a stored trail; the capacity of
\* a column's frozen_trails is 0 or the first allocation of 4.
C27_AtMostOneFrozenTrail ==
    [][matrix' = "live" =>
         \A i \in DOMAIN m'.frozen :
            /\ m'.frozen_trail_counts[i] <= 1
            /\ ~m'.frozen[i] => m'.frozen_trail_counts[i] = 0
            /\ m'.frozen_trail_capacities[i] \in {0, 4}
            /\ (ticks' = ticks + 1 /\ trace'[i].captured) =>
                  /\ ~m.frozen[i]
                  /\ m.frozen_trail_counts[i] = 0
                  /\ m'.frozen_trail_counts[i] = 1]_vars

\* C27 witness: the tick of a freeze, the column holding its one frozen
\* trail in the first allocation
C27_OneTrailStored ==
    /\ last.op = "update"
    /\ \E i \in DOMAIN trace :
          /\ trace[i].captured
          /\ m.frozen[i]
          /\ m.frozen_trail_counts[i] = 1
          /\ m.frozen_trail_capacities[i] = 4
          /\ DOMAIN m.frozen_trails[i] = 0 .. 3

\* C28: a frozen column unfreezes after a number of ticks no random draw
\* changes.  The tick of the freeze leaves the stored trail at alpha
\* 1 - FADE_RATE; every tick that finds the column frozen with its trail
\* stored lowers that alpha by FADE_RATE, keeps the column frozen, and
\* removes the trail when the alpha reaches 0 or less; the tick that finds
\* the column frozen with no trail stored (the trail removed, or never
\* stored because realloc failed) unfreezes it.
C28_FrozenColumnUnfreezes ==
    [][ticks' = ticks + 1 =>
         \A i \in DOMAIN trace :
            /\ trace'[i].captured =>
                  /\ m'.frozen[i]
                  /\ m'.frozen_trail_counts[i] = 1
                  /\ m'.frozen_trails[i][0].alpha = F32Sub(ONE, FADE_RATE)
            /\ trace'[i].realloc_failed =>
                  m'.frozen[i] /\ m'.frozen_trail_counts[i] = 0
            /\ (m.frozen[i] /\ m.frozen_trail_counts[i] = 1) =>
                  /\ m'.frozen[i]
                  /\ trace'[i].branch = "frozen"
                  /\ \/ /\ F32Sub(m.frozen_trails[i][0].alpha, FADE_RATE) > 0
                        /\ m'.frozen_trail_counts[i] = 1
                        /\ m'.frozen_trails[i][0].alpha =
                              F32Sub(m.frozen_trails[i][0].alpha, FADE_RATE)
                     \/ /\ F32Sub(m.frozen_trails[i][0].alpha, FADE_RATE) <= 0
                        /\ m'.frozen_trail_counts[i] = 0
                        /\ trace'[i].removed = 1
            /\ (m.frozen[i] /\ m.frozen_trail_counts[i] = 0) =>
                  /\ ~m'.frozen[i]
                  /\ trace'[i].branch = "unfrozen"
            /\ m'.frozen_trail_counts[i] = 1 =>
                  OnFade(F32Sub(ONE, FADE_RATE), m'.frozen_trails[i][0].alpha)]_vars

\* C28 witness: the tick that removed the stored trail of a frozen column,
\* which the next tick unfreezes
C28_TrailJustRemoved ==
    /\ last.op = "update"
    /\ \E i \in DOMAIN trace :
          /\ trace[i].branch = "frozen"
          /\ trace[i].removed = 1
          /\ m.frozen[i]
          /\ m.frozen_trail_counts[i] = 0

\* column i is active, not frozen, fully opaque and past the bottom
PastBottom(mm, i) ==
    /\ mm.drops[i] > INACTIVE
    /\ ~mm.frozen[i]
    /\ mm.trail_alphas[i] = ONE
    /\ mm.drops[i] > CDiv(mm.height, FONT_HEIGHT)

\* C29: a tick never restarts an active, fully opaque trail that is past
\* the bottom because of its position.  Such a tick is of one of three
\* kinds: the 10% freeze fires; the 1% fade start fires and the trail moves
\* on while fading; or neither fires, and then the trail moves one row down
\* and is again active, fully opaque and past the bottom, with the same
\* trail_length.
C29_PastBottomEndsOnlyByDraw ==
    [][ticks' = ticks + 1 =>
         \A i \in DOMAIN trace :
            PastBottom(m, i) =>
               /\ trace'[i].branch = "active"
               /\ trace'[i].restart_pos = <<>>
               /\ m'.trail_lengths[i] = m.trail_lengths[i]
               /\ \/ /\ trace'[i].freeze_fired
                     /\ ~trace'[i].fade_started
                     /\ m'.frozen[i]
                  \/ /\ trace'[i].fade_started
                     /\ ~trace'[i].freeze_fired
                     /\ m'.trail_alphas[i] < ONE
                     /\ m'.drops[i] = m.drops[i] + 1
                     /\ ~m'.frozen[i]
                  \/ /\ ~trace'[i].fade_started
                     /\ ~trace'[i].freeze_fired
                     /\ m'.drops[i] = m.drops[i] + 1
                     /\ PastBottom(m', i)]_vars

\* C29 witness: a fully opaque trail that went on falling to ten rows
\* below the canvas
C29_FarBelowCanvas ==
    /\ last.op = "update"
    /\ \E i \in DOMAIN trace :
          /\ trace[i].shifted
          /\ ~trace[i].freeze_fired
          /\ PastBottom(m, i)
          /\ m.drops[i] >= CDiv(m.height, FONT_HEIGHT) + 10

\* the columns that are off
InactiveColumns(mm) == {i \in DOMAIN mm.drops : mm.drops[i] <= INACTIVE}

\* C30: with fewer than 10000 character rows no call on a created engine
\* makes a column inactive: a position above the sentinel -10000 stays
\* above it, and the set of inactive columns never gains a column.
C30_NoColumnTurnsInactive ==
    [][(matrix = "live" /\ matrix' = "live"
          /\ CDiv(m.height, FONT_HEIGHT) < 10000) =>
         /\ \A i \in DOMAIN m.drops :
               m.drops[i] > INACTIVE => m'.drops[i] > INACTIVE
         /\ InactiveColumns(m') \subseteq InactiveColumns(m)]_vars

\* C30 witness: a tick that switched on the last inactive column, its new
\* position above the sentinel
C30_LastInactiveColumnOn ==
    /\ last.op = "update"
    /\ InactiveColumns(m) = {}
    /\ \E i \in DOMAIN trace :
          /\ trace[i].branch = "reactivated"
          /\ m.drops[i] > INACTIVE

\* column i has a character within its trail_length that was never written
HasUnwritten(mm, i) ==
    \E j \in 0 .. mm.trail_lengths[i] - 1 : mm.trail_chars[i][j] \notin Palette

\* C31: every character a frame draws, of a live trail, of a frozen trail or
\* as the highlighted head, is a glyph of the palette, also while a restart
\* with a longer trail_length has brought unwritten characters into the
\* trail: those are above the canvas for as long as they are in the trail.
C31_OnlyPaletteGlyphsDrawn ==
    \A p \in DOMAIN frame :
        IsGlyph(frame[p]) =>
            /\ frame[p].ch \in Palette
            /\ frame[p].kind = "active" =>
                  frame[p].ch = m.trail_chars[frame[p].column][frame[p].index]
            /\ frame[p].kind = "frozen" =>
                  \E n \in 0 .. m.frozen_trail_counts[frame[p].column] - 1 :
                     frame[p].ch =
                        m.frozen_trails[frame[p].column][n].characters[frame[p].index]

\* C31 witness: a frame with draws of a frozen trail that was stored with
\* unwritten characters in it, a restart having lengthened the trail before
C31_DrawnBesideUnwritten ==
    /\ last.op = "render"
    /\ \E p \in DOMAIN frame :
          /\ frame[p].kind = "frozen"
          /\ \E k \in 0 .. m.trail_lengths[frame[p].column] - 1 :
                m.frozen_trails[frame[p].column][0].characters[k] \notin Palette

\* the frozen trail column i holds (frozen_trails[i][count - 1])
Held(mm, i) == mm.frozen_trails[i][mm.frozen_trail_counts[i] - 1]

\* C32: while a column holds a frozen trail, (a) in the tick that stored it
\* its first trail_length characters are the live trail's at the copy (the
\* live trail's after the tick, but for the one character the tick changed
\* afterwards), (b) in every other step the column held it before, and its
\* trail_length and those characters are unchanged, and (c) a render draws of
\* it only characters of index below trail_length, each the stored one.
C32_SnapshotReadAsCaptured ==
    [][matrix' = "live" =>
         \A i \in DOMAIN m'.trail_lengths :
            m'.frozen_trail_counts[i] > 0 =>
               /\ IF ticks' = ticks + 1 /\ trace'[i].captured
                  THEN \A k \in 0 .. m'.trail_lengths[i] - 1 :
                          \/ Held(m', i).characters[k] = m'.trail_chars[i][k]
                          \/ trace'[i].mutated = <<k>>
                  ELSE /\ m.frozen_trail_counts[i] = m'.frozen_trail_counts[i]
                       /\ m'.trail_lengths[i] = m.trail_lengths[i]
                       /\ \A k \in 0 .. m'.trail_lengths[i] - 1 :
                             Held(m', i).characters[k] = Held(m, i).characters[k]
               /\ last'.op = "render" =>
                     \A p \in DOMAIN frame' :
                        (frame'[p].kind = "frozen" /\ frame'[p].column = i) =>
                           /\ frame'[p].index < m'.trail_lengths[i]
                           /\ frame'[p].ch = Held(m', i).characters[frame'[p].index]]_vars

\* C32 witness: a frame drawn of a frozen trail in a tick after the one that
\* stored it, the live trail of the column having changed since
C32_HeldTrailDrawnLater ==
    /\ last.op = "render"
    /\ \E i \in DOMAIN trace :
          /\ m.frozen_trail_counts[i] > 0
          /\ ~trace[i].captured
          /\ \E k \in 0 .. m.trail_lengths[i] - 1 :
                Held(m, i).characters[k] # m.trail_chars[i][k]
          /\ \E p \in DOMAIN frame :
                frame[p].kind = "frozen" /\ frame[p].column = i

\* C33: on a created engine, after every update and render, for each column:
\* the live trail's buffer has MAX_TRAIL_LENGTH characters and trail_length,
\* at least 1, does not exceed it, so the indices 0 .. trail_length - 1 the
\* shift, the copy and the render use are inside it, as is the index of the
\* character the tick changed; frozen_trails[i] has frozen_trail_capacities[i]
\* entries and the entries in use are below that; each of them has a
\* 64-character buffer the trail_length characters copied and read fit in;
\* and every draw of the frame read a character of an index inside its buffer.
C33_IndicesWithinBuffers ==
    matrix = "live" =>
       \A i \in 0 .. m.columns - 1 :
          /\ DOMAIN m.trail_chars[i] = 0 .. MAX_TRAIL_LENGTH - 1
          /\ m.trail_lengths[i] \in 1 .. MAX_TRAIL_LENGTH
          /\ trace[i].mutated # <<>> =>
                trace[i].mutated[1] \in 1 .. m.trail_lengths[i] - 1
          /\ DOMAIN m.frozen_trails[i] = 0 .. m.frozen_trail_capacities[i] - 1
          /\ m.frozen_trail_counts[i] \in 0 .. m.frozen_trail_capacities[i]
          /\ \A n \in 0 .. m.frozen_trail_counts[i] - 1 :
                /\ DOMAIN m.frozen_trails[i][n].characters = 0 .. FROZEN_CHARS - 1
                /\ m.trail_lengths[i] <= FROZEN_CHARS
          /\ \A p \in DOMAIN frame :
                (IsGlyph(frame[p]) /\ frame[p].column = i) =>
                   /\ frame[p].index \in 0 .. m.trail_lengths[i] - 1
                   /\ frame[p].kind = "lead" => frame[p].index = 0

\* C33 witness: a frame drawn of a column of the greatest trail_length that
\* holds a frozen trail, after a tick that changed a character of its live
\* trail
C33_LongestTrailFrozenAndChanged ==
    /\ last.op = "render"
    /\ \E i \in DOMAIN trace :
          /\ m.trail_lengths[i] = MAX_TRAIL_LENGTH
          /\ m.frozen_trail_counts[i] > 0
          /\ trace[i].mutated # <<>>
          /\ \E p \in DOMAIN frame :
                frame[p].kind = "frozen" /\ frame[p].column = i

============================================================================
